---- MODULE Spec2Model ----
(***************************************************************************)
(* Model of @libp2p/aes-ctr: create(key, iv) selects the AES variant from  *)
(* the key length, builds one streaming CTR session per direction and      *)
(* returns a handle whose encrypt/decrypt push data through its session.   *)
(***************************************************************************)
EXTENDS Integers, Sequences, FiniteSets

\* ------------------------------------------------------------------------
\* Bounds of the model
\* ------------------------------------------------------------------------

\* encrypt/decrypt calls made in one behaviour of one handle
MaxOps == 4

\* encrypt/decrypt calls made in one behaviour of two handles
MaxOpsTwo == 3

\* ------------------------------------------------------------------------
\* Bytes and blocks
\* ------------------------------------------------------------------------

\* AES block length in bytes; also the only accepted IV length
BlockSize == 16



Min(a, b) == IF a < b THEN a ELSE b

\* the sequence of n bytes all equal to v  (new Uint8Array(n).fill(v))
Fill(n, v) == [i \in 1..n |-> v]

\* s without its first n elements
Drop(s, n) == SubSeq(s, n + 1, Len(s))

\* the first n elements of s
Take(s, n) == SubSeq(s, 1, n)

IsPrefix(s, t) == Len(s) <= Len(t) /\ Take(t, Len(s)) = s

RECURSIVE XorBits(_, _, _)
XorBits(a, b, k) ==
    IF k = 0 THEN 0
    ELSE ((a + b) % 2) + 2 * XorBits(a \div 2, b \div 2, k - 1)

RECURSIVE XorRow(_, _)
XorRow(a, n) == IF n = 0 THEN <<>> ELSE Append(XorRow(a, n - 1), XorBits(a, n - 1, 4))

RECURSIVE XorRows(_)
XorRows(n) == IF n = 0 THEN <<>> ELSE Append(XorRows(n - 1), XorRow(n - 1, 16))

\* the exclusive or of every two 4-bit halves, tabulated: XorTable[a + 1][b + 1]
XorTable == XorRows(16)

\* bitwise exclusive or of two bytes, half by half
Xor(a, b) ==
    16 * XorTable[(a \div 16) + 1][(b \div 16) + 1] + XorTable[(a % 16) + 1][(b % 16) + 1]

\* element-wise XOR of the data with as much key-stream
XorSeq(data, ks) == [i \in 1..Len(data) |-> Xor(data[i], ks[i])]

\* ------------------------------------------------------------------------
\* Mode selection (cipher-mode.ts)
\* ------------------------------------------------------------------------

CIPHER_MODES == [k \in {16, 32} |-> IF k = 16 THEN "aes-128-ctr" ELSE "aes-256-ctr"]

\* Mutant: every key of 32 bytes or more is taken for an AES-256 key.
cipherMode_AtLeast(key) ==
    IF Len(key) = 16 \/ Len(key) >= 32
    THEN [error |-> "none", value |-> IF Len(key) = 16 THEN "aes-128-ctr" ELSE "aes-256-ctr"]
    ELSE [error |-> "InvalidKeyLengthError", value |-> ""]

\* A call either returns (error = "none") or throws the named error.
cipherMode(key) ==
    IF Len(key) = 16 \/ Len(key) = 32
    THEN [error |-> "none", value |-> CIPHER_MODES[Len(key)]]
    ELSE [error |-> "InvalidKeyLengthError", value |-> ""]

\* ------------------------------------------------------------------------
\* Streaming CTR session (ciphers.ts: createCipheriv / createDecipheriv and
\* the update method of the objects they return)
\* ------------------------------------------------------------------------

\* number of rounds of the AES variant a mode names
Rounds(mode) == IF mode = "aes-128-ctr" THEN 10 ELSE 14

\* The block cipher primitive: a keyed function from 16-byte blocks to
\* 16-byte blocks, different for the two variants.  Every output byte depends
\* on the key and on the low bytes of the block, so successive counter
\* blocks give different key-stream.
BlockEncrypt(mode, key, block) ==
    [i \in 1..BlockSize |->
        (Rounds(mode) * i + 5 * block[i] + 3 * block[(i % BlockSize) + 1]
           + 7 * block[BlockSize] + 11 * block[BlockSize - 1]
           + key[((i - 1) % Len(key)) + 1] + Len(key)) % 256]

RECURSIVE incrementAt(_, _)
incrementAt(counter, i) ==
    IF i = 0 THEN counter
    ELSE IF counter[i] = 255
         THEN incrementAt([counter EXCEPT ![i] = 0], i - 1)
         ELSE [counter EXCEPT ![i] = counter[i] + 1]

\* Mutant: the carry out of the last byte is dropped.
increment_LastByte(counter) ==
    [counter EXCEPT ![BlockSize] = (counter[BlockSize] + 1) % 256]

\* the counter block plus one, as a big-endian integer, modulo 2^128
increment(counter) == incrementAt(counter, BlockSize)

\* a fresh session: the counter is the IV, no key-stream is left over
newSession(mode, key, iv) ==
    [mode |-> mode, key |-> key, counter |-> iv, residual |-> <<>>]

\* the next key-stream block, and the session with its counter advanced
nextBlock(s) ==
    [block |-> BlockEncrypt(s.mode, s.key, s.counter),
     session |-> [s EXCEPT !.counter = increment(@)]]

\* step 2 of process: one fresh key-stream block per 16 bytes of input, the
\* unused tail of the last block kept as the residual
RECURSIVE processBlocks(_, _, _)
processBlocks(s, input, out) ==
    IF input = <<>> THEN [session |-> s, output |-> out]
    ELSE LET nb == nextBlock(s)
             m == Min(BlockSize, Len(input))
         IN  processBlocks([nb.session EXCEPT !.residual = Drop(nb.block, m)],
                           Drop(input, m),
                           out \o XorSeq(Take(input, m), nb.block))

\* Mutant: a block mode that is not streaming: only whole blocks come out.
update_WholeBlocks(s, data) ==
    LET k == Min(Len(s.residual), Len(data))
        r == processBlocks([s EXCEPT !.residual = Drop(@, k)],
                           Drop(data, k),
                           XorSeq(Take(data, k), s.residual))
    IN  [session |-> r.session,
         output |-> Take(r.output, Len(r.output) - (Len(r.output) % BlockSize))]

\* cipher.update(data): step 1 uses up the residual, step 2 the fresh blocks
update(s, data) ==
    LET k == Min(Len(s.residual), Len(data))
    IN  processBlocks([s EXCEPT !.residual = Drop(@, k)],
                      Drop(data, k),
                      XorSeq(Take(data, k), s.residual))

\* Mutant: only an IV that is too short is refused.
validIV_AtLeast(iv) == Len(iv) >= BlockSize

\* the IV seeds the counter block, so it has to be one block long
validIV(iv) == Len(iv) = BlockSize

\* Objects live in a heap (a sequence; a reference is an index into it), so
\* that two closures naming the same object see each other's updates.
createCipheriv(mode, key, iv, heap) ==
    IF ~validIV(iv)
    THEN [error |-> "InvalidIVLength", ref |-> 0, heap |-> heap]
    ELSE [error |-> "none", ref |-> Len(heap) + 1,
          heap |-> Append(heap, newSession(mode, key, iv))]

createDecipheriv(mode, key, iv, heap) ==
    IF ~validIV(iv)
    THEN [error |-> "InvalidIVLength", ref |-> 0, heap |-> heap]
    ELSE [error |-> "none", ref |-> Len(heap) + 1,
          heap |-> Append(heap, newSession(mode, key, iv))]

\* ------------------------------------------------------------------------
\* The handle (index.ts)
\* ------------------------------------------------------------------------

NoHandle == [mode |-> "", cipher |-> 0, decipher |-> 0]

\* Mutant: the IV is checked before the key.
create_IVFirst(key, iv, heap) ==
    LET mode == cipherMode(key)
        cipher == createCipheriv(mode.value, key, iv, heap)
        decipher == createDecipheriv(mode.value, key, iv, cipher.heap)
    IN  IF cipher.error # "none"
        THEN [error |-> cipher.error, res |-> NoHandle, heap |-> heap]
        ELSE IF mode.error # "none"
        THEN [error |-> mode.error, res |-> NoHandle, heap |-> heap]
        ELSE [error |-> "none",
              res |-> [mode |-> mode.value, cipher |-> cipher.ref, decipher |-> decipher.ref],
              heap |-> decipher.heap]

\* Mutant: one object serves both directions.
create_Aliased(key, iv, heap) ==
    LET mode == cipherMode(key)
        cipher == createCipheriv(mode.value, key, iv, heap)
    IN  IF mode.error # "none"
        THEN [error |-> mode.error, res |-> NoHandle, heap |-> heap]
        ELSE IF cipher.error # "none"
        THEN [error |-> cipher.error, res |-> NoHandle, heap |-> heap]
        ELSE [error |-> "none",
              res |-> [mode |-> mode.value, cipher |-> cipher.ref, decipher |-> cipher.ref],
              heap |-> cipher.heap]

\* Mutant: the cipher and decipher objects are made once and kept at module
\* level, so every later handle gets the first handle's objects.
create_Singleton(key, iv, heap) ==
    LET mode == cipherMode(key)
        cipher == createCipheriv(mode.value, key, iv, heap)
        decipher == createDecipheriv(mode.value, key, iv, cipher.heap)
    IN  IF mode.error # "none"
        THEN [error |-> mode.error, res |-> NoHandle, heap |-> heap]
        ELSE IF cipher.error # "none"
        THEN [error |-> cipher.error, res |-> NoHandle, heap |-> heap]
        ELSE IF heap # <<>>
        THEN [error |-> "none",
              res |-> [mode |-> mode.value, cipher |-> 1, decipher |-> 2],
              heap |-> heap]
        ELSE [error |-> "none",
              res |-> [mode |-> mode.value, cipher |-> cipher.ref, decipher |-> decipher.ref],
              heap |-> decipher.heap]

create(key, iv, heap) ==
    LET mode == cipherMode(key)
    IN  IF mode.error # "none"
        THEN [error |-> mode.error, res |-> NoHandle, heap |-> heap]
        ELSE LET cipher == createCipheriv(mode.value, key, iv, heap)
             IN  IF cipher.error # "none"
                 THEN [error |-> cipher.error, res |-> NoHandle, heap |-> cipher.heap]
                 ELSE LET decipher == createDecipheriv(mode.value, key, iv, cipher.heap)
                      IN  IF decipher.error # "none"
                          THEN [error |-> decipher.error, res |-> NoHandle,
                                heap |-> decipher.heap]
                          ELSE [error |-> "none",
                                res |-> [mode |-> mode.value, cipher |-> cipher.ref,
                                         decipher |-> decipher.ref],
                                heap |-> decipher.heap]

\* Mutant: a new cipher for every call, so no state is carried between calls.
encrypt_NoStore(res, data, heap) ==
    [error |-> "none", output |-> update(heap[res.cipher], data).output, heap |-> heap]

encrypt(res, data, heap) ==
    LET r == update(heap[res.cipher], data)
    IN  [error |-> "none", output |-> r.output,
         heap |-> [heap EXCEPT ![res.cipher] = r.session]]

\* Mutant: a new decipher for every call, so no state is carried between calls.
decrypt_NoStore(res, data, heap) ==
    [error |-> "none", output |-> update(heap[res.decipher], data).output, heap |-> heap]

\* Mutant: decrypt goes through the cipher object.
decrypt_ViaCipher(res, data, heap) ==
    LET r == update(heap[res.cipher], data)
    IN  [error |-> "none", output |-> r.output,
         heap |-> [heap EXCEPT ![res.cipher] = r.session]]

decrypt(res, data, heap) ==
    LET r == update(heap[res.decipher], data)
    IN  [error |-> "none", output |-> r.output,
         heap |-> [heap EXCEPT ![res.decipher] = r.session]]

\* ------------------------------------------------------------------------
\* The callers: what they pass, and what they have seen
\* ------------------------------------------------------------------------

\* the handles a caller may hold
Handles == {"a", "b"}

\* keys of valid and invalid lengths (the tests fill the key with 5)
Keys == {Fill(n, 5) : n \in {5, 16, 17, 32, 33}}

\* IVs of valid and invalid lengths; the tests' IV (filled with 1), the
\* all-0xFF IV and an IV whose last byte alone is 0xFF
IVs == {Fill(BlockSize, 1), Fill(BlockSize, 255), Fill(BlockSize - 1, 0) \o <<255>>,
        Fill(BlockSize - 1, 1), Fill(BlockSize + 1, 1)}

\* chunk lengths: empty, inside a block, one short of a block and one over
Lens == {0, 1, BlockSize - 1, BlockSize + 1}

\* a chunk of n bytes, every position and length with its own value
Data(n) == [i \in 1..n |-> (7 * i + n) % 256]

Inputs == {Data(n) : n \in Lens}

VARIABLES
    heap,       \* the cipher and decipher objects, by reference
    handles,    \* per handle: what create returned (NoHandle before, or if it threw)
    outcome,    \* per handle: "none" before create, "ok", or the error create threw
    args,       \* per handle: the key and IV create was called with
    hist,       \* per handle: all bytes passed to and returned by encrypt and decrypt
    pending,    \* per handle: the input and output of its latest encrypt
    trip,       \* per handle: where it is in a run of encrypt-then-decrypt pairs
    last,       \* the latest call: operation, handle, input, output, error
    left        \* the number of encrypt and decrypt calls still to be made

vars == <<heap, handles, outcome, args, hist, pending, trip, last, left>>

NoHist == [encIn |-> <<>>, encOut |-> <<>>, decIn |-> <<>>, decOut |-> <<>>]

Init ==
    /\ heap = <<>>
    /\ handles = [h \in Handles |-> NoHandle]
    /\ outcome = [h \in Handles |-> "none"]
    /\ args = [h \in Handles |-> [key |-> <<>>, iv |-> <<>>]]
    /\ hist = [h \in Handles |-> NoHist]
    /\ pending = [h \in Handles |-> [input |-> <<>>, output |-> <<>>]]
    /\ trip = [h \in Handles |-> "idle"]
    /\ last = [op |-> "none", h |-> "a", input |-> <<>>, output |-> <<>>, error |-> "none"]
    /\ left = MaxOps

\* const h = create(key, iv), or the error it throws
Create(h, key, iv) ==
    /\ outcome[h] = "none"
    /\ LET r == create(key, iv, heap)
       IN  /\ heap' = r.heap
           /\ handles' = [handles EXCEPT ![h] = r.res]
           /\ outcome' = [outcome EXCEPT ![h] = IF r.error = "none" THEN "ok" ELSE r.error]
           /\ last' = [op |-> "create", h |-> h, input |-> <<>>, output |-> <<>>,
                       error |-> r.error]
    /\ args' = [args EXCEPT ![h] = [key |-> key, iv |-> iv]]
    /\ UNCHANGED <<hist, pending, trip, left>>

\* h.encrypt(data)
Encrypt(h, data) ==
    /\ outcome[h] = "ok"
    /\ left > 0
    /\ LET r == encrypt(handles[h], data, heap)
       IN  /\ heap' = r.heap
           /\ hist' = [hist EXCEPT ![h].encIn = @ \o data, ![h].encOut = @ \o r.output]
           /\ pending' = [pending EXCEPT ![h] = [input |-> data, output |-> r.output]]
           /\ last' = [op |-> "encrypt", h |-> h, input |-> data, output |-> r.output,
                       error |-> r.error]
    /\ trip' = [trip EXCEPT ![h] = IF @ = "idle" THEN "encrypted" ELSE "broken"]
    /\ left' = left - 1
    /\ UNCHANGED <<handles, outcome, args>>

\* h.decrypt(data)
Decrypt(h, data) ==
    /\ outcome[h] = "ok"
    /\ left > 0
    /\ LET r == decrypt(handles[h], data, heap)
       IN  /\ heap' = r.heap
           /\ hist' = [hist EXCEPT ![h].decIn = @ \o data, ![h].decOut = @ \o r.output]
           /\ last' = [op |-> "decrypt", h |-> h, input |-> data, output |-> r.output,
                       error |-> r.error]
    /\ trip' = [trip EXCEPT ![h] =
                   IF @ = "encrypted" /\ data = pending[h].output THEN "idle" ELSE "broken"]
    /\ left' = left - 1
    /\ UNCHANGED <<handles, outcome, args, pending>>

\* what a caller may pass to h.decrypt: any chunk, the result of h's latest
\* encrypt, or the next bytes of the ciphertext some handle g has produced,
\* from where h's decrypt stream stands
Wire(h) ==
    LET at == Len(hist[h].decIn)
    IN  UNION {{SubSeq(hist[g].encOut, at + 1, at + n) :
                   n \in {m \in Lens : at + m <= Len(hist[g].encOut)}} :
               g \in {x \in Handles : outcome[x] = "ok"}}

DecInputs(h) == Inputs \cup {pending[h].output} \cup Wire(h)

\* one caller with one handle
Next ==
    \/ \E key \in Keys, iv \in IVs : Create("a", key, iv)
    \/ \E data \in Inputs : Encrypt("a", data)
    \/ \E data \in DecInputs("a") : Decrypt("a", data)

Spec == Init /\ [][Next]_vars

\* two handles, created one after the other with the same key and IV
InitTwo ==
    \E key \in Keys, iv \in IVs :
        LET ra == create(key, iv, <<>>)
            rb == create(key, iv, ra.heap)
        IN  /\ ra.error = "none" /\ rb.error = "none"
            /\ heap = rb.heap
            /\ handles = [h \in Handles |-> IF h = "a" THEN ra.res ELSE rb.res]
            /\ outcome = [h \in Handles |-> "ok"]
            /\ args = [h \in Handles |-> [key |-> key, iv |-> iv]]
            /\ hist = [h \in Handles |-> NoHist]
            /\ pending = [h \in Handles |-> [input |-> <<>>, output |-> <<>>]]
            /\ trip = [h \in Handles |-> "idle"]
            /\ last = [op |-> "create", h |-> "b", input |-> <<>>, output |-> <<>>,
                       error |-> "none"]
            /\ left = MaxOpsTwo

NextTwo ==
    \/ \E h \in Handles, data \in Inputs : Encrypt(h, data)
    \/ \E h \in Handles : \E data \in DecInputs(h) : Decrypt(h, data)

SpecTwo == InitTwo /\ [][NextTwo]_vars

\* ------------------------------------------------------------------------
\* Helpers of the properties
\* ------------------------------------------------------------------------

Created == {h \in Handles : outcome[h] = "ok"}

ValidKeyLength(key) == Len(key) \in DOMAIN CIPHER_MODES

\* what one call of encrypt on a new handle with h's key and IV returns for data
SingleEncrypt(h, data) ==
    LET r == create(args[h].key, args[h].iv, <<>>)
    IN  encrypt(r.res, data, r.heap).output

\* what one call of decrypt on a new handle with h's key and IV returns for data
SingleDecrypt(h, data) ==
    LET r == create(args[h].key, args[h].iv, <<>>)
    IN  decrypt(r.res, data, r.heap).output

\* the number of key-stream blocks that n bytes use:  ceil(n / 16)
Blocks(n) == (n + BlockSize - 1) \div BlockSize

\* counter + k as a big-endian integer modulo 2^128, by long addition from
\* the last byte with a carry
RECURSIVE AddBE(_, _, _)
AddBE(counter, i, carry) ==
    IF i = 0 THEN counter
    ELSE AddBE([counter EXCEPT ![i] = (counter[i] + carry) % 256], i - 1,
               (counter[i] + carry) \div 256)

\* ------------------------------------------------------------------------
\* C1  create(key, iv) with a 16-byte IV throws InvalidKeyLengthError when the
\*     key is neither 16 nor 32 bytes long, and otherwise returns a handle of
\*     the 128-bit variant for 16 bytes and of the 256-bit variant for 32.
\* ------------------------------------------------------------------------
C1_KeyLength ==
    \A h \in Handles :
        (outcome[h] # "none" /\ Len(args[h].iv) = BlockSize) =>
            /\ ~ValidKeyLength(args[h].key) =>
                   outcome[h] = "InvalidKeyLengthError" /\ handles[h] = NoHandle
            /\ Len(args[h].key) = 16 =>
                   outcome[h] = "ok" /\ handles[h].mode = "aes-128-ctr"
            /\ Len(args[h].key) = 32 =>
                   outcome[h] = "ok" /\ handles[h].mode = "aes-256-ctr"

C1_Witness ==
    /\ Len(args["a"].key) = 33 /\ Len(args["a"].iv) = BlockSize
    /\ outcome["a"] = "InvalidKeyLengthError"

C10_ValidationOrder ==
    /\ \A h \in Handles :
          /\ (outcome[h] # "none" /\ ~ValidKeyLength(args[h].key)) =>
                 outcome[h] = "InvalidKeyLengthError"
          /\ outcome[h] \notin {"none", "ok"} =>
                 handles[h] = NoHandle /\ heap = <<>>
    /\ last.op \in {"encrypt", "decrypt"} =>
          outcome[last.h] = "ok" /\ last.error = "none"

C10_Witness ==
    /\ ~ValidKeyLength(args["a"].key) /\ Len(args["a"].iv) = BlockSize - 1
    /\ outcome["a"] = "InvalidKeyLengthError"
    /\ heap = <<>>

\* ------------------------------------------------------------------------
\* C2  Chunk-invariance: the ciphertext a handle has returned for the chunks
\*     passed to encrypt so far, concatenated, is what one encrypt call on a
\*     new handle with the same key and IV returns for the concatenated
\*     chunks, whatever the chunk boundaries (empty chunks included).
\* ------------------------------------------------------------------------
C2_ChunkInvariance ==
    \A h \in Created : hist[h].encOut = SingleEncrypt(h, hist[h].encIn)

\* four encrypt calls and no decrypt, of 0, 1, 15 and 17 bytes in some order
C2_Witness ==
    /\ left = 0 /\ Len(hist["a"].encIn) = 2 * BlockSize + 1
    /\ hist["a"].decIn = <<>> /\ last.op = "encrypt"
    /\ hist["a"].encOut # hist["a"].encIn

\* ------------------------------------------------------------------------
\* C3  Round trip: while every encrypt on a handle is directly followed by a
\*     decrypt of its result on that handle, each decrypt returns the input
\*     of the encrypt before it, on the first pair and on every later one.
\* ------------------------------------------------------------------------
C3_RoundTrip ==
    (last.op = "decrypt" /\ trip[last.h] = "idle") =>
        last.output = pending[last.h].input

\* the second pair, both pairs of lengths that are not multiples of 16
C3_Witness ==
    /\ last.op = "decrypt" /\ trip["a"] = "idle" /\ left = MaxOps - 4
    /\ Len(last.input) % BlockSize # 0
    /\ Len(hist["a"].decIn) > Len(last.input)
    /\ Len(hist["a"].decIn) % BlockSize # 0
    /\ last.output # last.input

\* ------------------------------------------------------------------------
\* C4  Length preservation: encrypt and decrypt return as many bytes as they
\*     are given, in every session state, the empty input included.
\* ------------------------------------------------------------------------
C4_LengthPreserved ==
    last.op \in {"encrypt", "decrypt"} => Len(last.output) = Len(last.input)

\* an empty decrypt on a session that holds unused key-stream
C4_Witness ==
    /\ last.op = "decrypt" /\ last.input = <<>> /\ last.output = <<>>
    /\ heap[handles["a"].decipher].residual # <<>>

\* ------------------------------------------------------------------------
\* C6  The two sessions of a handle are independent: an encrypt call leaves
\*     the decipher object and everything decrypt has returned unchanged, a
\*     decrypt call leaves the cipher object and everything encrypt has
\*     returned unchanged; what either returns is fixed by the bytes passed
\*     to it so far, however the calls of the other are interleaved.
\* ------------------------------------------------------------------------
C6_Frame ==
    \A h \in Created :
        /\ (last'.op = "encrypt" /\ last'.h = h /\ left' < left) =>
              /\ heap'[handles[h].decipher] = heap[handles[h].decipher]
              /\ hist'[h].decIn = hist[h].decIn /\ hist'[h].decOut = hist[h].decOut
              /\ hist'[h].encOut = SingleEncrypt(h, hist'[h].encIn)
        /\ (last'.op = "decrypt" /\ last'.h = h /\ left' < left) =>
              /\ heap'[handles[h].cipher] = heap[handles[h].cipher]
              /\ hist'[h].encIn = hist[h].encIn /\ hist'[h].encOut = hist[h].encOut
              /\ hist'[h].decOut = SingleDecrypt(h, hist'[h].decIn)

\* C6: every step keeps the frame of the session it does not use
C6_SessionsIndependent == [][C6_Frame]_vars

\* an encrypt after decrypt has run ahead of it, both sessions inside a block
C6_Witness ==
    /\ last.op = "encrypt"
    /\ Len(hist["a"].decIn) > Len(hist["a"].encIn)
    /\ heap[handles["a"].cipher].residual # <<>>
    /\ heap[handles["a"].decipher].residual # <<>>
    /\ heap[handles["a"].cipher].counter # heap[handles["a"].decipher].counter

\* ------------------------------------------------------------------------
\* C9  Session state: after n bytes through a session its counter block is
\*     IV + ceil(n/16) modulo 2^128 as a big-endian integer, it holds
\*     16 * ceil(n/16) - n unused key-stream bytes (0 to 15), and the first
\*     key-stream block is BlockEncrypt(key, IV).
\* ------------------------------------------------------------------------
C9_SessionOf(h, s, in, out) ==
    /\ s.counter = AddBE(args[h].iv, BlockSize, Blocks(Len(in)))
    /\ Len(s.residual) = BlockSize * Blocks(Len(in)) - Len(in)
    /\ Len(s.residual) \in 0..(BlockSize - 1)
    /\ LET m == Min(Len(in), BlockSize)
       IN  Take(out, m) = XorSeq(Take(in, m),
                                 BlockEncrypt(handles[h].mode, args[h].key, args[h].iv))

C9_SessionState ==
    \A h \in Created :
        /\ C9_SessionOf(h, heap[handles[h].cipher], hist[h].encIn, hist[h].encOut)
        /\ C9_SessionOf(h, heap[handles[h].decipher], hist[h].decIn, hist[h].decOut)

\* the all-0xFF IV has wrapped to zero and gone on, 15 bytes are left over
C9_Witness ==
    /\ args["a"].iv = Fill(BlockSize, 255)
    /\ Len(hist["a"].encIn) = 2 * BlockSize + 1
    /\ heap[handles["a"].cipher].counter = Fill(BlockSize - 1, 0) \o <<2>>
    /\ Len(heap[handles["a"].cipher].residual) = BlockSize - 1

\* ------------------------------------------------------------------------
\* C7  Two handles created with the same key and IV return the same
\*     ciphertext for the same encrypt inputs (as far as both have been
\*     given the same bytes), and a call on one handle leaves the sessions
\*     and the results of the other unchanged.
\* ------------------------------------------------------------------------
C7_SameStream ==
    \A g, h \in Created :
        (args[g] = args[h] /\ IsPrefix(hist[g].encIn, hist[h].encIn)) =>
            IsPrefix(hist[g].encOut, hist[h].encOut)

C7_Frame ==
    \A g \in Created :
        (last'.h # g /\ left' < left) =>
            /\ heap'[handles[g].cipher] = heap[handles[g].cipher]
            /\ heap'[handles[g].decipher] = heap[handles[g].decipher]
            /\ hist'[g] = hist[g]

\* C7: the same stream on both handles always, and every step keeps the
\* other handle's frame
C7_Deterministic == []C7_SameStream /\ [][C7_Frame]_vars

\* both handles have encrypted the same 17 bytes and the calls are used up
C7_Witness ==
    /\ hist["a"].encIn = hist["b"].encIn
    /\ Len(hist["a"].encIn) = BlockSize + 1
    /\ hist["a"].encOut = hist["b"].encOut
    /\ last.op = "encrypt" /\ left = 0

\* ------------------------------------------------------------------------
\* C8  Cross-handle decryption: when the bytes passed to decrypt on one
\*     handle are, in order, the bytes encrypt has returned on another handle
\*     with the same key and IV (in whatever chunks), decrypt has returned
\*     the plaintext those bytes came from.
\* ------------------------------------------------------------------------
C8_CrossHandle ==
    \A g, h \in Created :
        (g # h /\ args[g] = args[h] /\ IsPrefix(hist[h].decIn, hist[g].encOut)) =>
            hist[h].decOut = Take(hist[g].encIn, Len(hist[h].decIn))

\* a encrypted 17 bytes in one call, b decrypted 16 of them in calls of 15 and 1
C8_Witness ==
    /\ Len(hist["a"].encIn) = BlockSize + 1
    /\ hist["b"].decIn = Take(hist["a"].encOut, BlockSize)
    /\ hist["b"].decOut = Take(hist["a"].encIn, BlockSize)
    /\ hist["b"].decOut # hist["b"].decIn
    /\ last.op = "decrypt" /\ Len(last.input) = 1 /\ left = 0

====
